---------------------------- MODULE Spec2Model ----------------------------
(***************************************************************************)
(* The bulk import job controller of the Clerk account console:           *)
(* ClerkAccountsProvider (src/contexts/ClerkAccountsContext.tsx) keeps one *)
(* ImportJob per account in the React state importJobs and the mutable     *)
(* pause/stop flags and ticker handle in jobRefs; BulkImport               *)
(* (src/pages/BulkImport.tsx) is the page that calls it.  The account     *)
(* store of the backend (backend/server.js) keeps the accounts, with their *)
(* secret keys, in one JSON file.                                          *)
(*                                                                         *)
(* Text is a sequence of one-character strings.  JavaScript runs every     *)
(* callback to completion, so one action is one callback: a click handler, *)
(* a timer callback, or the continuation of the run loop after an await.   *)
(***************************************************************************)
EXTENDS Integers, Sequences, FiniteSets

(***************************************************************************)
(* Bounds of the model.                                                    *)
(***************************************************************************)
\* the pasted user data has at most this many lines
MaxLines == 2
\* the delay field is set to 0..MaxDelay seconds
MaxDelay == 1
\* the elapsed-time ticker is followed up to this many seconds
MaxElapsed == 1

\* direct calls of resumeImportJob are followed while the account has fewer
\* than this many elapsed-time tickers alive
MaxTickers == 2

\* the account store is followed until it has issued this many ids
MaxIds == 3

\* initialJobState.delayInSeconds
DefaultDelay == 1

Accounts == {"acc1", "acc2"}
\* the accounts the operator works with
Operated == {"acc1"}

(***************************************************************************)
(* Text helpers: String.prototype.trim, split, includes.                   *)
(***************************************************************************)
NL == "\n"

IsSpace(c) == c \in {" ", NL}

SetMin(S) == CHOOSE x \in S : \A y \in S : x <= y
SetMax(S) == CHOOSE x \in S : \A y \in S : x >= y

trim(s) ==
  LET keep == {k \in 1..Len(s) : ~IsSpace(s[k])}
  IN  IF keep = {} THEN <<>> ELSE SubSeq(s, SetMin(keep), SetMax(keep))

includes(s, c) == \E k \in 1..Len(s) : s[k] = c

RECURSIVE split(_, _)
split(s, sep) ==
  LET at == {k \in 1..Len(s) : s[k] = sep}
  IN  IF at = {} THEN <<s>>
      ELSE <<SubSeq(s, 1, SetMin(at) - 1)>>
             \o split(SubSeq(s, SetMin(at) + 1, Len(s)), sep)

(***************************************************************************)
(* parseUserData: one record per non-blank line, fields split on commas    *)
(* and trimmed, records whose email is empty or has no '@' dropped.        *)
(***************************************************************************)
toUser(line) ==
  LET raw == split(line, ",")
      parts == [k \in 1..Len(raw) |-> trim(raw[k])]
      orEmpty(k) == IF k <= Len(parts) THEN parts[k] ELSE <<>>
  IN  [email |-> parts[1], firstName |-> orEmpty(2),
       lastName |-> orEmpty(3), password |-> orEmpty(4)]

\* a filter that keeps every record with a non-empty first field
ValidEmailAny(u) == u.email # <<>>

ValidEmail(u) == u.email # <<>> /\ includes(u.email, "@")

NonBlank(line) == trim(line) # <<>>

parseUserData(text) ==
  LET lines == SelectSeq(split(trim(text), NL), NonBlank)
  IN  SelectSeq([k \in 1..Len(lines) |-> toUser(lines[k])], ValidEmail)

(***************************************************************************)
(* The texts the operator pastes: up to MaxLines lines out of Lines.       *)
(***************************************************************************)
\* "a@x,A,O,p": a record with a password
LineA == <<"a", "@", "x", ",", "A", ",", "O", ",", "p">>
\* " b@y": a record without password, with leading blank
LineB == <<" ", "b", "@", "y">>
\* "n,c@z": the first field, the email, has no '@'
LineBad == <<"n", ",", "c", "@", "z">>

Lines == {LineA, LineB, LineBad}

RECURSIVE joinLines(_)
joinLines(ls) ==
  IF Len(ls) = 0 THEN <<>>
  ELSE IF Len(ls) = 1 THEN ls[1]
  ELSE ls[1] \o <<NL>> \o joinLines(Tail(ls))

Texts == {joinLines(ls) : ls \in UNION {[1..n -> Lines] : n \in 0..MaxLines}}

Delays == 0..MaxDelay


(***************************************************************************)
(* State.                                                                  *)
(***************************************************************************)
VARIABLES
  importJobs,  \* importJobs[a]: the ImportJob of account a (React state)
  jobRefs,     \* jobRefs[a]: isPausedRef, isStoppedRef, timerRef of account a
  tickers,     \* tickers[a]: the elapsed-time intervals of a that are active
  loops,       \* loops[a]: the invocations of startImportJob for a, oldest first
  db,          \* the accounts in the file of the backend, in file order
  issued,      \* the number of ids crypto.randomUUID() has returned
  response     \* the last response of an account endpoint

vars == <<importJobs, jobRefs, tickers, loops, db, issued, response>>

\* the job controller runs in the browser and leaves the backend's file alone
backend == <<db, issued, response>>
\* the account endpoints leave the jobs of the browser alone
frontend == <<importJobs, jobRefs, tickers, loops>>

\* nextUserEmail: null, or an email
Null == <<>>
Some(e) == <<e>>

(***************************************************************************)
(* progress = ((i + 1) / users.length) * 100, kept as the exact fraction   *)
(* num/den in lowest terms.                                                *)
(***************************************************************************)
RECURSIVE gcd(_, _)
gcd(x, y) == IF y = 0 THEN x ELSE gcd(y, x % y)

Fraction(n, d) == [num |-> n \div gcd(n, d), den |-> d \div gcd(n, d)]

\* the share of the records still to do
PercentOfRest(done, total) == Fraction(100 * (total - done), total)

Percent(done, total) == Fraction(100 * done, total)

Zero == Fraction(0, 1)
Hundred == Fraction(100, 1)

LessEq(p, q) == p.num * q.den <= q.num * p.den

initialJobState ==
  [status |-> "idle", results |-> <<>>, progress |-> Zero, timeElapsed |-> 0,
   successCount |-> 0, failCount |-> 0, showStats |-> FALSE,
   userEmails |-> <<>>, sendInvites |-> TRUE, delayInSeconds |-> DefaultDelay,
   countdown |-> 0, nextUserEmail |-> Null]

\* jobRefs[a] before the first start of a: no entry
noRefs == [present |-> FALSE, isPaused |-> FALSE, isStopped |-> FALSE, timerRef |-> 0]

Init ==
  /\ importJobs = [a \in Accounts |-> initialJobState]
  /\ jobRefs = [a \in Accounts |-> noRefs]
  /\ tickers = [a \in Accounts |-> {}]
  /\ loops = [a \in Accounts |-> <<>>]
  /\ db = <<>>
  /\ issued = 0
  /\ response = [status |-> 0, kind |-> "none", body |-> <<>>]

\* updateJobState: the fields of updates replace those of the job
updateJobState(job, updates) ==
  [f \in DOMAIN job |-> IF f \in DOMAIN updates THEN updates[f] ELSE job[f]]

\* setInterval returns a handle that no live timer and no reference holds
NewHandle(tset, ref) == SetMin((1..(Cardinality(tset) + 2)) \ (tset \cup {ref}))

\* a clearInterval that cancels nothing
clearNothing(tset, refs) == tset

\* clearInterval(timerRef.current), guarded by if (timerRef.current)
clearTicker(tset, refs) == IF refs.timerRef # 0 THEN tset \ {refs.timerRef} ELSE tset

(***************************************************************************)
(* The run loop of startImportJob.  A loop is                              *)
(*   pc: "fetch" (awaiting the answer of POST /api/import-user),           *)
(*       "pauseWait" (awaiting the 200 ms timeout of the pause poll),      *)
(*       "countdown" (awaiting the countdown promise, its interval live),  *)
(*       "resolved" (countdown promise resolved, continuation queued),     *)
(*       "done" (returned: the invocation is then dropped from loops);     *)
(*   i, users, newResults, settings (currentJobSettings): its locals;      *)
(*   sent: the requests it has issued, in order.                           *)
(* Each operator below gives the account's job, tickers and loop after     *)
(* the loop has run on to its next await.                                  *)
(***************************************************************************)
Active(lp) == lp.pc # "done"

\* an exit that reports every run as completed
FinalizeAlwaysCompleted(job, refs, tset, lp) ==
  [job |-> updateJobState(job, [status |-> "completed"]),
   tickers |-> clearTicker(tset, refs),
   loop |-> [lp EXCEPT !.pc = "done"]]

\* an exit that leaves the elapsed-time ticker running
FinalizeKeepsTicker(job, refs, tset, lp) ==
  [job |-> updateJobState(job,
             [status |-> IF refs.isStopped THEN "stopped" ELSE "completed"]),
   tickers |-> tset,
   loop |-> [lp EXCEPT !.pc = "done"]]

\* lines 550-554: after the loop
Finalize(job, refs, tset, lp) ==
  [job |-> updateJobState(job,
             [status |-> IF refs.isStopped THEN "stopped" ELSE "completed"]),
   tickers |-> clearTicker(tset, refs),
   loop |-> [lp EXCEPT !.pc = "done"]]

\* lines 520-527: the request for users[i]
IssueCall(job, tset, lp) ==
  [job |-> job, tickers |-> tset,
   loop |-> [lp EXCEPT !.pc = "fetch",
                       !.sent = Append(@, [index |-> lp.i,
                                           email |-> lp.users[lp.i + 1].email,
                                           sendInvites |-> lp.settings.sendInvites])]]

\* a delay block that reads the delay the job stores now
DelayOrCallLive(job, tset, lp) ==
  IF lp.i > 0 /\ job.delayInSeconds > 0
  THEN [job |-> updateJobState(job,
                  [nextUserEmail |-> Some(lp.users[lp.i + 1].email),
                   countdown |-> job.delayInSeconds]),
        tickers |-> tset,
        loop |-> [lp EXCEPT !.pc = "countdown"]]
  ELSE IssueCall(job, tset, lp)

\* lines 503-518 up to the await, then the request when there is no delay
DelayOrCall(job, tset, lp) ==
  IF lp.i > 0 /\ lp.settings.delayInSeconds > 0
  THEN [job |-> updateJobState(job,
                  [nextUserEmail |-> Some(lp.users[lp.i + 1].email),
                   countdown |-> lp.settings.delayInSeconds]),
        tickers |-> tset,
        loop |-> [lp EXCEPT !.pc = "countdown"]]
  ELSE IssueCall(job, tset, lp)

\* lines 497-500: the stop check after the pause wait
AfterPause(job, refs, tset, lp) ==
  IF refs.isStopped THEN Finalize(job, refs, tset, lp)
  ELSE DelayOrCall(job, tset, lp)

\* lines 486-495: the loop condition, the stop check, the pause check
LoopHead(job, refs, tset, lp) ==
  IF ~(lp.i < Len(lp.users)) THEN Finalize(job, refs, tset, lp)
  ELSE IF refs.isStopped THEN Finalize(job, refs, tset, lp)
  ELSE IF refs.isPaused
       THEN [job |-> job, tickers |-> tset, loop |-> [lp EXCEPT !.pc = "pauseWait"]]
  ELSE AfterPause(job, refs, tset, lp)

\* a pause poll that starts the iteration over, index advanced
PauseWaitSkips(job, refs, tset, lp) ==
  IF refs.isStopped THEN AfterPause(job, refs, tset, lp)
  ELSE IF refs.isPaused
       THEN [job |-> job, tickers |-> tset, loop |-> lp]
  ELSE LoopHead(job, refs, tset, [lp EXCEPT !.i = lp.i + 1])

\* a pause poll that only a stop ends
PauseWaitStuck(job, refs, tset, lp) ==
  IF refs.isStopped THEN AfterPause(job, refs, tset, lp)
  ELSE [job |-> job, tickers |-> tset, loop |-> lp]

\* lines 493-495: the 200 ms timeout fired
PauseWaitOver(job, refs, tset, lp) ==
  IF refs.isStopped THEN AfterPause(job, refs, tset, lp)
  ELSE IF refs.isPaused
       THEN [job |-> job, tickers |-> tset, loop |-> lp]
  ELSE AfterPause(job, refs, tset, lp)

(***************************************************************************)
(* The state of one account, st = [job, refs, tickers, loops], and the     *)
(* functions of the context on it.                                         *)
(***************************************************************************)
Acct(a) ==
  [job |-> importJobs[a], refs |-> jobRefs[a], tickers |-> tickers[a], loops |-> loops[a]]

\* a state update that writes the job under every account id
PutAll(a, st) ==
  /\ importJobs' = [b \in Accounts |-> st.job]
  /\ jobRefs' = [jobRefs EXCEPT ![a] = st.refs]
  /\ tickers' = [tickers EXCEPT ![a] = st.tickers]
  /\ loops' = [loops EXCEPT ![a] = st.loops]
  /\ UNCHANGED backend

Put(a, st) ==
  /\ importJobs' = [importJobs EXCEPT ![a] = st.job]
  /\ jobRefs' = [jobRefs EXCEPT ![a] = st.refs]
  /\ tickers' = [tickers EXCEPT ![a] = st.tickers]
  /\ loops' = [loops EXCEPT ![a] = st.loops]
  /\ UNCHANGED backend

NotDone(lp) == Active(lp)

\* loop k of the account replaced by the outcome w of one of its steps; an
\* invocation that has returned is dropped
WithLoop(st, k, w) ==
  [st EXCEPT !.job = w.job, !.tickers = w.tickers,
             !.loops = SelectSeq([st.loops EXCEPT ![k] = w.loop], NotDone)]

\* the outcome of POST /api/import-user for a user, as the loop receives it:
\* 200 with status success, a non-2xx answer with status error, or fetch
\* (or response.json) throwing.  A result is kept as its email and status;
\* its message and userId are not followed.
Outcomes == {"ok", "httpError", "exception"}

ResultOf(user, outcome) ==
  CASE outcome = "ok" -> [email |-> user.email, status |-> "success"]
    [] outcome = "httpError" -> [email |-> user.email, status |-> "error"]
    [] outcome = "exception" -> [email |-> user.email, status |-> "error"]

\* a publish that counts only the successes
PublishResultNoFail(job, newResults, result, i, n) ==
  [job EXCEPT !.results = newResults,
              !.progress = Percent(i + 1, n),
              !.successCount = IF result.status = "success" THEN @ + 1 ELSE @]

\* a publish that moves progress and the counters and leaves results behind
PublishProgressOnly(job, newResults, result, i, n) ==
  [job EXCEPT !.progress = Percent(i + 1, n),
              !.successCount = IF result.status = "success" THEN @ + 1 ELSE @,
              !.failCount = IF result.status = "error" THEN @ + 1 ELSE @]

\* lines 535-547: the one state update that publishes a result
PublishResult(job, newResults, result, i, n) ==
  [job EXCEPT !.results = newResults,
              !.progress = Percent(i + 1, n),
              !.successCount = IF result.status = "success" THEN @ + 1 ELSE @,
              !.failCount = IF result.status = "error" THEN @ + 1 ELSE @]

\* a continuation that leaves the loop after a failed call
AfterFetchAborts(st, k, outcome) ==
  LET lp == st.loops[k]
      result == ResultOf(lp.users[lp.i + 1], outcome)
      pushed == Append(lp.newResults, result)
      job1 == PublishResult(st.job, pushed, result, lp.i, Len(lp.users))
      lp1 == [lp EXCEPT !.newResults = pushed, !.i = lp.i + 1]
  IN  WithLoop(st, k, IF outcome = "ok"
                      THEN LoopHead(job1, st.refs, st.tickers, lp1)
                      ELSE Finalize(job1, st.refs, st.tickers, lp1))

\* a continuation that puts the new result in front of the earlier ones
AfterFetchPrepends(st, k, outcome) ==
  LET lp == st.loops[k]
      result == ResultOf(lp.users[lp.i + 1], outcome)
      pushed == <<result>> \o lp.newResults
      job1 == PublishResult(st.job, pushed, result, lp.i, Len(lp.users))
      lp1 == [lp EXCEPT !.newResults = pushed, !.i = lp.i + 1]
  IN  WithLoop(st, k, LoopHead(job1, st.refs, st.tickers, lp1))

\* lines 528-548 and on to the next await: the answer for users[i] arrived
AfterFetch(st, k, outcome) ==
  LET lp == st.loops[k]
      result == ResultOf(lp.users[lp.i + 1], outcome)
      pushed == Append(lp.newResults, result)
      job1 == PublishResult(st.job, pushed, result, lp.i, Len(lp.users))
      lp1 == [lp EXCEPT !.newResults = pushed, !.i = lp.i + 1]
  IN  WithLoop(st, k, LoopHead(job1, st.refs, st.tickers, lp1))

\* a countdown interval that takes two seconds off per tick
CountdownStepByTwo(st, k) ==
  LET newCountdown == st.job.countdown - 2
  IN  [st EXCEPT !.job.countdown = newCountdown,
                 !.loops[k].pc = IF newCountdown <= 0 THEN "resolved" ELSE "countdown"]

\* lines 506-515: one tick of the countdown interval
CountdownStep(st, k) ==
  LET newCountdown == st.job.countdown - 1
  IN  [st EXCEPT !.job.countdown = newCountdown,
                 !.loops[k].pc = IF newCountdown <= 0 THEN "resolved" ELSE "countdown"]

\* a continuation that calls the backend with the countdown fields as they are
AfterCountdownKeepsFields(st, k) ==
  WithLoop(st, k, IssueCall(st.job, st.tickers, st.loops[k]))

\* a continuation that looks at the stop flag before it calls the backend
AfterCountdownChecksStop(st, k) ==
  LET job1 == updateJobState(st.job, [nextUserEmail |-> Null, countdown |-> 0])
  IN  WithLoop(st, k,
        IF st.refs.isStopped
        THEN Finalize(job1, st.refs, st.tickers, st.loops[k])
        ELSE IssueCall(job1, st.tickers, st.loops[k]))

\* line 517 and on: the continuation after the countdown promise
AfterCountdown(st, k) ==
  WithLoop(st, k,
    IssueCall(updateJobState(st.job, [nextUserEmail |-> Null, countdown |-> 0]),
              st.tickers, st.loops[k]))

\* lines 480-482 and 575-577: one tick of the elapsed-time interval
ElapsedStep(st) == [st EXCEPT !.job.timeElapsed = @ + 1]

\* a start that leaves the pause and stop flags of the last run in place
startKeepsFlags(st, users) ==
  LET refs0 == IF st.refs.present THEN st.refs ELSE [noRefs EXCEPT !.present = TRUE]
      h == NewHandle(st.tickers, refs0.timerRef)
      refs1 == [refs0 EXCEPT !.timerRef = h]
      job1 == updateJobState(st.job,
                [status |-> "running", results |-> <<>>, progress |-> Zero,
                 timeElapsed |-> 0, successCount |-> 0, failCount |-> 0,
                 showStats |-> TRUE, countdown |-> 0, nextUserEmail |-> Null])
      lp0 == [pc |-> "fetch", i |-> 0, users |-> users, newResults |-> <<>>,
              settings |-> [delayInSeconds |-> st.job.delayInSeconds,
                            sendInvites |-> st.job.sendInvites],
              sent |-> <<>>]
      w == LoopHead(job1, refs1, st.tickers \cup {h}, lp0)
  IN  [job |-> w.job, refs |-> refs1, tickers |-> w.tickers,
       loops |-> SelectSeq(Append(st.loops, w.loop), NotDone)]

\* lines 455-559 up to the first await
startImportJob(st, users) ==
  LET refs0 == IF st.refs.present THEN st.refs ELSE [noRefs EXCEPT !.present = TRUE]
      h == NewHandle(st.tickers, refs0.timerRef)
      refs1 == [refs0 EXCEPT !.isPaused = FALSE, !.isStopped = FALSE, !.timerRef = h]
      job1 == updateJobState(st.job,
                [status |-> "running", results |-> <<>>, progress |-> Zero,
                 timeElapsed |-> 0, successCount |-> 0, failCount |-> 0,
                 showStats |-> TRUE, countdown |-> 0, nextUserEmail |-> Null])
      lp0 == [pc |-> "fetch", i |-> 0, users |-> users, newResults |-> <<>>,
              settings |-> [delayInSeconds |-> st.job.delayInSeconds,
                            sendInvites |-> st.job.sendInvites],
              sent |-> <<>>]
      w == LoopHead(job1, refs1, st.tickers \cup {h}, lp0)
  IN  [job |-> w.job, refs |-> refs1, tickers |-> w.tickers,
       loops |-> SelectSeq(Append(st.loops, w.loop), NotDone)]

\* a pause that leaves the elapsed-time ticker running
pauseKeepsTicker(st) ==
  IF st.refs.present
  THEN [st EXCEPT !.refs.isPaused = TRUE,
                  !.job = updateJobState(st.job, [status |-> "paused"])]
  ELSE st

\* lines 561-569
pauseImportJob(st) ==
  IF st.refs.present
  THEN [st EXCEPT !.refs.isPaused = TRUE,
                  !.job = updateJobState(st.job, [status |-> "paused"]),
                  !.tickers = clearTicker(st.tickers, st.refs)]
  ELSE st

\* lines 571-579
resumeImportJob(st) ==
  IF st.refs.present
  THEN LET h == NewHandle(st.tickers, st.refs.timerRef)
       IN  [st EXCEPT !.refs.isPaused = FALSE,
                      !.refs.timerRef = h,
                      !.job = updateJobState(st.job, [status |-> "running"]),
                      !.tickers = st.tickers \cup {h}]
  ELSE st

\* a stop that publishes the stopped status itself
stopSetsStatus(st) ==
  IF st.refs.present
  THEN [st EXCEPT !.refs.isStopped = TRUE,
                  !.job = updateJobState(st.job, [status |-> "stopped"]),
                  !.tickers = clearTicker(st.tickers, st.refs)]
  ELSE st

\* lines 581-589
stopImportJob(st) ==
  IF st.refs.present
  THEN [st EXCEPT !.refs.isStopped = TRUE,
                  !.tickers = clearTicker(st.tickers, st.refs)]
  ELSE st

\* a clear that resets the run and keeps the configuration
clearKeepsSettings(st) ==
  [st EXCEPT !.job = updateJobState(st.job,
     [status |-> "idle", results |-> <<>>, progress |-> Zero, timeElapsed |-> 0,
      successCount |-> 0, failCount |-> 0, showStats |-> FALSE,
      countdown |-> 0, nextUserEmail |-> Null])]

\* lines 591-593
clearImportJob(st) == [st EXCEPT !.job = updateJobState(st.job, initialJobState)]

\* a settings update that starts from the default job
updateJobSettingsResets(st, settings) ==
  [st EXCEPT !.job = updateJobState(initialJobState, settings)]

\* lines 595-597
updateJobSettings(st, settings) == [st EXCEPT !.job = updateJobState(st.job, settings)]

(***************************************************************************)
(* The BulkImport page: what it renders for a job, and its handlers.       *)
(***************************************************************************)
isJobRunning(job) == job.status \in {"running", "paused"}

\* line 704: the Start row is rendered, else the Pause/Resume and End Job row
StartRowShown(job) == job.status \in {"idle", "stopped", "completed"}

\* a Start Import button that ignores the status of the job
StartAlwaysEnabled(job) == trim(job.userEmails) # <<>>
\* lines 704-707: the Start Import button can be clicked
StartEnabled(job) ==
  StartRowShown(job) /\ ~(isJobRunning(job) \/ trim(job.userEmails) = <<>>)

\* lines 711-715
ResumeShown(job) == ~StartRowShown(job) /\ job.status = "paused"
PauseShown(job) == ~StartRowShown(job) /\ job.status # "paused"
\* line 716
EndJobShown(job) == ~StartRowShown(job)
\* a Clear All button that is never disabled
ClearAlwaysEnabled(job) == TRUE
\* line 686
ClearEnabled(job) == ~isJobRunning(job)

NoPassword(u) == u.password = <<>>

\* lines 583-590: the toast of handleStartImport, Null when it starts the job
startToast(job) ==
  LET users == parseUserData(job.userEmails)
  IN  IF Len(users) = 0
      THEN Some([title |-> "Invalid Data", variant |-> "destructive"])
      ELSE IF ~job.sendInvites /\ \E k \in 1..Len(users) : NoPassword(users[k])
      THEN Some([title |-> "Missing Passwords", variant |-> "destructive"])
      ELSE Null

\* a handler that starts the job without looking for missing passwords
handleStartImportAnyPassword(st) ==
  LET users == parseUserData(st.job.userEmails)
  IN  IF Len(users) = 0 THEN st
      ELSE startImportJob(st, users)

\* lines 580-592
handleStartImport(st) ==
  LET users == parseUserData(st.job.userEmails)
  IN  IF Len(users) = 0 THEN st
      ELSE IF ~st.job.sendInvites /\ \E k \in 1..Len(users) : NoPassword(users[k]) THEN st
      ELSE startImportJob(st, users)

(***************************************************************************)
(* Actions.  A continuation queued by a resolved promise runs before any   *)
(* other callback: while one is queued, no click or timer is handled.      *)
(***************************************************************************)
Quiescent == \A a \in Accounts : \A k \in 1..Len(loops[a]) : loops[a][k].pc # "resolved"

ClickStart(a) ==
  /\ Quiescent
  /\ StartEnabled(importJobs[a])
  /\ Put(a, handleStartImport(Acct(a)))

ClickPause(a) ==
  /\ Quiescent
  /\ PauseShown(importJobs[a])
  /\ Put(a, pauseImportJob(Acct(a)))

ClickResume(a) ==
  /\ Quiescent
  /\ ResumeShown(importJobs[a])
  /\ Put(a, resumeImportJob(Acct(a)))

ClickEndJob(a) ==
  /\ Quiescent
  /\ EndJobShown(importJobs[a])
  /\ Put(a, stopImportJob(Acct(a)))

ClickClearAll(a) ==
  /\ Quiescent
  /\ ClearEnabled(importJobs[a])
  /\ Put(a, clearImportJob(Acct(a)))

\* lines 518-528 of the page: the three configuration inputs
EditUserEmails(a) ==
  /\ Quiescent
  /\ \E text \in Texts : Put(a, updateJobSettings(Acct(a), [userEmails |-> text]))

EditSendInvites(a) ==
  /\ Quiescent
  /\ \E v \in BOOLEAN : Put(a, updateJobSettings(Acct(a), [sendInvites |-> v]))

EditDelay(a) ==
  /\ Quiescent
  /\ \E d \in Delays : Put(a, updateJobSettings(Acct(a), [delayInSeconds |-> d]))

FetchReturns(a) ==
  /\ Quiescent
  /\ \E k \in 1..Len(loops[a]) :
       /\ loops[a][k].pc = "fetch"
       /\ \E outcome \in Outcomes : Put(a, AfterFetch(Acct(a), k, outcome))

PauseWaitFires(a) ==
  /\ Quiescent
  /\ \E k \in 1..Len(loops[a]) :
       /\ loops[a][k].pc = "pauseWait"
       /\ Put(a, WithLoop(Acct(a), k,
                   PauseWaitOver(importJobs[a], jobRefs[a], tickers[a], loops[a][k])))

CountdownTick(a) ==
  /\ Quiescent
  /\ \E k \in 1..Len(loops[a]) :
       /\ loops[a][k].pc = "countdown"
       /\ Put(a, CountdownStep(Acct(a), k))

CountdownResolved(a) ==
  \E k \in 1..Len(loops[a]) :
    /\ loops[a][k].pc = "resolved"
    /\ Put(a, AfterCountdown(Acct(a), k))

ElapsedTick(a) ==
  /\ Quiescent
  /\ tickers[a] # {}
  /\ importJobs[a].timeElapsed < MaxElapsed
  /\ Put(a, ElapsedStep(Acct(a)))

\* one callback of the run loop of a
LoopStep(a) ==
  \/ FetchReturns(a)
  \/ PauseWaitFires(a)
  \/ CountdownTick(a)
  \/ CountdownResolved(a)

\* a click on one of the buttons of the page
Click(a) ==
  \/ ClickStart(a)
  \/ ClickPause(a)
  \/ ClickResume(a)
  \/ ClickEndJob(a)
  \/ ClickClearAll(a)

(***************************************************************************)
(* Spec: the operator pastes the user data while the job is idle, changes  *)
(* the two options at any time, and clicks whatever button the page shows. *)
(* SpecAnyEdit lifts the restriction on the user data: the text area is    *)
(* typed into at any time.                                                 *)
(***************************************************************************)
Next ==
  \E a \in Operated :
    \/ (importJobs[a].status = "idle" /\ EditUserEmails(a))
    \/ EditSendInvites(a)
    \/ EditDelay(a)
    \/ Click(a)
    \/ LoopStep(a)
    \/ ElapsedTick(a)

Spec == Init /\ [][Next]_vars

AnyEditNext ==
  \E a \in Operated :
    \/ EditUserEmails(a)
    \/ EditSendInvites(a)
    \/ EditDelay(a)
    \/ Click(a)
    \/ LoopStep(a)
    \/ ElapsedTick(a)

SpecAnyEdit == Init /\ [][AnyEditNext]_vars

\* the run loop goes on as long as its timers fire and the backend answers
FairSpec == Spec /\ \A a \in Operated : WF_vars(LoopStep(a))

(***************************************************************************)
(* FairUser: FairSpec with a user who leaves no run paused for ever: a     *)
(* paused run is resumed or stopped.  The answers, the countdown ticks and *)
(* the pause polls are the steps of LoopStep; a poll that finds the run    *)
(* still paused changes nothing and is no step of the model.               *)
(***************************************************************************)
Unpause(a) ==
  /\ importJobs[a].status = "paused"
  /\ ClickResume(a) \/ ClickEndJob(a)

FairUser ==
  Spec /\ \A a \in Operated : WF_vars(LoopStep(a)) /\ WF_vars(Unpause(a))

(***************************************************************************)
(* SpecCalls: a consumer of the context that calls pauseImportJob,         *)
(* resumeImportJob and stopImportJob whatever the status of the job is;    *)
(* the functions are exported by the provider (lines 671-674) and take     *)
(* only the account id.                                                    *)
(***************************************************************************)
CallPause(a) ==
  /\ Quiescent
  /\ Put(a, pauseImportJob(Acct(a)))

CallResume(a) ==
  /\ Quiescent
  /\ Cardinality(tickers[a]) < MaxTickers
  /\ Put(a, resumeImportJob(Acct(a)))

CallStop(a) ==
  /\ Quiescent
  /\ Put(a, stopImportJob(Acct(a)))

CallsNext ==
  \E a \in Operated :
    \/ (importJobs[a].status = "idle" /\ EditUserEmails(a))
    \/ EditSendInvites(a)
    \/ EditDelay(a)
    \/ ClickStart(a)
    \/ ClickClearAll(a)
    \/ CallPause(a)
    \/ CallResume(a)
    \/ CallStop(a)
    \/ LoopStep(a)
    \/ ElapsedTick(a)

SpecCalls == Init /\ [][CallsNext]_vars

(***************************************************************************)
(* SpecTwo: the operator switches between the accounts and runs a job on   *)
(* each; the user data of a job is the uploaded file UploadedFile, the     *)
(* options keep their defaults.                                            *)
(***************************************************************************)
UploadedFile == joinLines(<<LineA, LineB>>)

\* lines 562-567 of the page: reader.onload
UploadFile(a) ==
  /\ Quiescent
  /\ Put(a, updateJobSettings(Acct(a), [userEmails |-> UploadedFile]))

\* what the page and the timers of account a can do
StepOf(a) ==
  \/ (importJobs[a].status = "idle" /\ UploadFile(a))
  \/ Click(a)
  \/ LoopStep(a)
  \/ ElapsedTick(a)

TwoNext == \E a \in Accounts : StepOf(a)

SpecTwo == Init /\ [][TwoNext]_vars

(***************************************************************************)
(* The account store of the backend, backend/server.js lines 19-131.  An   *)
(* account of the file is [id, name, apiKey, secretKey, isActive]; an id   *)
(* is the number of the randomUUID call that made it, so no id is issued   *)
(* twice.  A handler reads the file, changes the list and writes it back;  *)
(* requests are handled one at a time, one action each.  A response is     *)
(* [status, kind, body]: body is a list of accounts (kind "list"), one     *)
(* account ("account") or a message ("message").                           *)
(***************************************************************************)
\* the values a request carries in name, apiKey and secretKey; "" is a
\* missing or empty field
Names == {"", "Main"}
ApiKeys == {"", "pk_test"}
SecretKeys == {"", "sk_one", "sk_two"}
\* the ids a request names: those issued so far and one that was never issued
RequestIds == 1..(MaxIds + 1)

\* lines 19-33: the list in the file ([] when the file is absent or empty)
readAccounts == db

\* a projection that keeps every field
keepAll(acc) == acc

\* ({ secretKey, ...rest }) => rest
safeAccount(acc) ==
  [f \in DOMAIN acc \ {"secretKey"} |-> acc[f]]

message(code, text) == [status |-> code, kind |-> "message", body |-> text]

\* lines 35-37 and the catch of the handler: the list is written and the
\* handler answers ok, or fs.writeFile throws, the file stays and the
\* handler answers 500
writeAccounts(accounts, ok, failed) ==
  \/ db' = accounts /\ response' = ok
  \/ db' = db /\ response' = failed

\* lines 48-58
GetAccounts ==
  /\ response' = [status |-> 200, kind |-> "list",
                  body |-> [i \in 1..Len(readAccounts) |-> safeAccount(readAccounts[i])]]
  /\ UNCHANGED <<db, issued>>
  /\ UNCHANGED frontend

\* lines 69-75
newAccount(accounts, id, name, apiKey, secretKey) ==
  [id |-> id, name |-> name, apiKey |-> apiKey, secretKey |-> secretKey,
   isActive |-> Len(accounts) = 0]

\* lines 77-81: the list with the new account pushed
pushAccount(accounts, acc) ==
  Append(IF acc.isActive
         THEN [i \in 1..Len(accounts) |-> [accounts[i] EXCEPT !.isActive = FALSE]]
         ELSE accounts,
         acc)

\* lines 60-91
PostAccount(name, apiKey, secretKey) ==
  /\ UNCHANGED frontend
  /\ IF name = "" \/ apiKey = "" \/ secretKey = ""
     THEN /\ response' = message(400, "All fields are required")
          /\ UNCHANGED <<db, issued>>
     ELSE /\ issued < MaxIds
          /\ issued' = issued + 1
          /\ LET acc == newAccount(readAccounts, issued + 1, name, apiKey, secretKey)
             IN  writeAccounts(pushAccount(readAccounts, acc),
                               [status |-> 201, kind |-> "account",
                                body |-> safeAccount(acc)],
                               message(500, "Error saving new account"))

HasId(accounts, id) == \E i \in 1..Len(accounts) : accounts[i].id = id

\* accounts.filter(acc => acc.id !== id)
RECURSIVE without(_, _)
without(accounts, id) ==
  IF accounts = <<>> THEN <<>>
  ELSE IF Head(accounts).id = id THEN without(Tail(accounts), id)
  ELSE <<Head(accounts)>> \o without(Tail(accounts), id)

\* accounts.find(acc => acc.id === id)?.isActive
wasActive(accounts, id) ==
  \E i \in 1..Len(accounts) :
    /\ accounts[i].id = id
    /\ \A j \in 1..(i - 1) : accounts[j].id # id
    /\ accounts[i].isActive

\* a delete that promotes no account
afterDeleteAsIs(accounts, id) == without(accounts, id)

\* lines 98-110: the list after the delete
afterDelete(accounts, id) ==
  LET rest == without(accounts, id)
  IN  IF wasActive(accounts, id) /\ Len(rest) > 0
      THEN [rest EXCEPT ![1].isActive = TRUE]
      ELSE rest

\* lines 93-117
DeleteAccount(id) ==
  /\ UNCHANGED frontend
  /\ UNCHANGED issued
  /\ IF Len(without(readAccounts, id)) = Len(readAccounts)
     THEN /\ response' = message(404, "Account not found")
          /\ UNCHANGED db
     ELSE writeAccounts(afterDelete(readAccounts, id),
                        message(200, "Account deleted successfully"),
                        message(500, "Error deleting account"))

\* line 123
activate(accounts, id) ==
  [i \in 1..Len(accounts) |-> [accounts[i] EXCEPT !.isActive = (accounts[i].id = id)]]

\* lines 119-131
SetActive(id) ==
  /\ UNCHANGED frontend
  /\ UNCHANGED issued
  /\ writeAccounts(activate(readAccounts, id),
                   message(200, "Active account updated"),
                   message(500, "Error updating active account"))

StoreNext ==
  \/ GetAccounts
  \/ \E name \in Names, apiKey \in ApiKeys, secretKey \in SecretKeys :
       PostAccount(name, apiKey, secretKey)
  \/ \E id \in RequestIds : DeleteAccount(id)
  \/ \E id \in RequestIds : SetActive(id)

SpecStore == Init /\ [][StoreNext]_vars

(***************************************************************************)
(* Properties.                                                             *)
(***************************************************************************)
ActiveLoops(a) == {k \in 1..Len(loops[a]) : Active(loops[a][k])}

\* the number of requests the loops of a have issued
RECURSIVE SentCount(_)
SentCount(ls) == IF ls = <<>> THEN 0 ELSE Len(Head(ls).sent) + SentCount(Tail(ls))

StatusOf(a) == importJobs[a].status
ResultsOf(a) == importJobs[a].results

IsPrefix(s, t) == Len(s) <= Len(t) /\ SubSeq(t, 1, Len(s)) = s

\* C1: every account has at most one active run loop, and while a loop is
\* active the status is running or paused, the states in which the page
\* offers no Start Import button: a start is not accepted during a run.
C1_OneRunLoop ==
  \A a \in Accounts :
    /\ Cardinality(ActiveLoops(a)) <= 1
    /\ ActiveLoops(a) # {} => /\ isJobRunning(importJobs[a])
                              /\ ~StartEnabled(importJobs[a])

\* a paused run over a text that the Start button would otherwise accept
C1_Witness ==
  \E a \in Accounts :
    /\ ActiveLoops(a) # {}
    /\ importJobs[a].status = "paused"
    /\ Len(parseUserData(importJobs[a].userEmails)) > 0

\* C2: in every state successCount + failCount is the length of results.
C2_CountsMatchResults ==
  \A a \in Accounts :
    importJobs[a].successCount + importJobs[a].failCount = Len(importJobs[a].results)

\* two results published, one success and one error
C2_Witness ==
  \E a \in Accounts :
    /\ Len(importJobs[a].results) = 2
    /\ importJobs[a].successCount = 1
    /\ importJobs[a].failCount = 1

\* C3: while the pause flag of an account is set, no step of its run loop
\* issues a request to the backend.
C3_NoCallWhilePaused ==
  [][\A a \in Accounts :
       (jobRefs[a].isPaused /\ jobRefs'[a].isPaused /\ loops[a] # <<>>)
         => SentCount(loops'[a]) <= SentCount(loops[a])]_vars

\* C4: once stop is requested during a run, the status becomes stopped
\* without any resume: the loop exits when the answer in flight arrives or
\* the pause poll fires, and the results then number at most the records.
StopPending(a) == jobRefs[a].isStopped /\ loops[a] # <<>>

C4_StopYieldsStopped ==
  /\ \A a \in Operated : StopPending(a) ~> (StatusOf(a) = "stopped")
  /\ [][\A a \in Accounts :
          (/\ StopPending(a)
           /\ loops[a][1].pc \in {"fetch", "pauseWait"}
           /\ loops'[a] # loops[a])
            => loops'[a] = <<>> /\ importJobs'[a].status = "stopped"]_vars
  /\ [][\A a \in Accounts :
          (StatusOf(a) # "stopped" /\ importJobs'[a].status = "stopped")
            => /\ StopPending(a)
               /\ Len(importJobs'[a].results) <= Len(loops[a][1].users)]_vars

\* a job stopped while paused and never resumed, one result short of two
C4_Witness ==
  \E a \in Accounts :
    /\ StatusOf(a) = "stopped"
    /\ jobRefs[a].isPaused /\ jobRefs[a].isStopped
    /\ loops[a] = <<>>
    /\ Len(ResultsOf(a)) = 1
    /\ importJobs[a].progress = Percent(1, 2)

\* C5: a call of pause when the status is not running, of resume when it is
\* not paused, or of stop when it is idle, completed or stopped, changes
\* neither the status, the results, the counters nor the live tickers.
C5_InvalidCallIsNoOp ==
  [][\A a \in Accounts :
       (\/ CallPause(a) /\ StatusOf(a) # "running"
        \/ CallResume(a) /\ StatusOf(a) # "paused"
        \/ CallStop(a) /\ StatusOf(a) \in {"idle", "completed", "stopped"})
         => /\ importJobs'[a].status = importJobs[a].status
            /\ importJobs'[a].results = importJobs[a].results
            /\ importJobs'[a].successCount = importJobs[a].successCount
            /\ importJobs'[a].failCount = importJobs[a].failCount
            /\ tickers'[a] = tickers[a]]_vars

\* C6: the requests of a run are for records 0, 1, 2, ... in this order,
\* each once, whatever pauses and resumes happened, and when the run
\* completes every record has had its request.
InIndexOrder(lp) ==
  /\ \A j \in 1..Len(lp.sent) :
       lp.sent[j].index = j - 1 /\ lp.sent[j].email = lp.users[j].email
  /\ Len(lp.sent) <= Len(lp.users)
  /\ Len(lp.sent) = IF lp.pc = "fetch" THEN lp.i + 1 ELSE lp.i

C6_EachRecordOnce ==
  /\ [](\A a \in Accounts : \A k \in 1..Len(loops[a]) : InIndexOrder(loops[a][k]))
  /\ [][\A a \in Accounts :
          (StatusOf(a) # "completed" /\ importJobs'[a].status = "completed")
            => /\ loops[a] # <<>>
               /\ Len(loops[a][1].sent) = Len(loops[a][1].users)
               /\ Len(importJobs'[a].results) = Len(loops[a][1].users)]_vars

\* a run resumed after a pause between its records: the poll has not fired
\* yet, one request was issued, record 1 is next
C6_Witness ==
  \E a \in Accounts :
    /\ loops[a] # <<>>
    /\ loops[a][1].pc = "pauseWait"
    /\ ~jobRefs[a].isPaused /\ ~jobRefs[a].isStopped
    /\ StatusOf(a) = "running"
    /\ loops[a][1].i = 1
    /\ Len(loops[a][1].sent) = 1
    /\ Len(loops[a][1].users) = 2


\* C7: during a run results is the list of outcomes of records 0..k-1, in
\* input order, k at most the number of records; and no step other than a
\* start or a clear changes or removes an entry that results holds.
C7_ResultsAppendOnly ==
  /\ [](\A a \in Accounts : \A k \in 1..Len(loops[a]) :
          /\ Len(ResultsOf(a)) <= Len(loops[a][k].users)
          /\ \A j \in 1..Len(ResultsOf(a)) :
               ResultsOf(a)[j].email = loops[a][k].users[j].email)
  /\ [][\A a \in Accounts :
          \/ IsPrefix(ResultsOf(a), importJobs'[a].results)
          \/ ClickStart(a)
          \/ ClickClearAll(a)]_vars

\* a completed run of two different records, their results in input order
C7_Witness ==
  \E a \in Accounts :
    /\ Len(ResultsOf(a)) = 2
    /\ ResultsOf(a)[1].email = <<"a", "@", "x">>
    /\ ResultsOf(a)[2].email = <<"b", "@", "y">>
    /\ StatusOf(a) = "completed"

\* C8: a record whose email has no '@' never reaches the loop: a started
\* loop holds one record per pasted line other than the one without '@';
\* and when a run completes it was not stopped and successCount + failCount
\* = |results| = the number of records of the loop.
C8_CompletedCountsAll ==
  /\ [](\A a \in Accounts : \A k \in 1..Len(loops[a]) :
          \A j \in 1..Len(loops[a][k].users) :
            includes(loops[a][k].users[j].email, "@"))
  /\ [][\A a \in Accounts :
          (loops[a] = <<>> /\ loops'[a] # <<>>)
            => \A ls \in UNION {[1..n -> Lines] : n \in 0..MaxLines} :
                 importJobs[a].userEmails = joinLines(ls)
                   => Len(loops'[a][1].users)
                        = Cardinality({j \in 1..Len(ls) : ls[j] # LineBad})]_vars
  /\ [][\A a \in Accounts :
          (StatusOf(a) # "completed" /\ importJobs'[a].status = "completed")
            => /\ ~jobRefs[a].isStopped
               /\ loops[a] # <<>>
               /\ Len(importJobs'[a].results) = Len(loops[a][1].users)
               /\ importJobs'[a].successCount + importJobs'[a].failCount
                    = Len(loops[a][1].users)]_vars

\* a completed run over a text of two lines, the first without '@'
C8_Witness ==
  \E a \in Accounts :
    /\ StatusOf(a) = "completed"
    /\ importJobs[a].userEmails = joinLines(<<LineBad, LineB>>)
    /\ Len(ResultsOf(a)) = 1
    /\ importJobs[a].successCount + importJobs[a].failCount = 1

\* C9: no step taken while the job is running or paused lowers progress,
\* and in the state where the status becomes completed progress is 100.
C9_ProgressMonotone ==
  /\ [][\A a \in Accounts :
          isJobRunning(importJobs[a])
            => LessEq(importJobs[a].progress, importJobs'[a].progress)]_vars
  /\ [][\A a \in Accounts :
          (StatusOf(a) # "completed" /\ importJobs'[a].status = "completed")
            => importJobs'[a].progress = Hundred]_vars

\* a run of two records completed: progress went 0, 50, 100
C9_Witness ==
  \E a \in Accounts :
    /\ StatusOf(a) = "completed"
    /\ Len(ResultsOf(a)) = 2
    /\ importJobs[a].progress = Hundred

\* C10: during a run of n records progress = |results| / n * 100, after it
\* progress is still that value, and results and progress change together.
C10_StepConsistent ==
  /\ [](\A a \in Accounts :
          /\ \A k \in 1..Len(loops[a]) :
               importJobs[a].progress
                 = Percent(Len(ResultsOf(a)), Len(loops[a][k].users))
          /\ loops[a] = <<>> =>
               \E n \in 1..MaxLines :
                 /\ Len(ResultsOf(a)) <= n
                 /\ importJobs[a].progress = Percent(Len(ResultsOf(a)), n))
  /\ [][\A a \in Accounts :
          (loops[a] # <<>> /\ loops'[a] = <<>>)
            => importJobs'[a].progress
                 = Percent(Len(importJobs'[a].results), Len(loops[a][1].users))]_vars
  /\ [][\A a \in Accounts :
          (importJobs'[a].results # importJobs[a].results)
            <=> (importJobs'[a].progress # importJobs[a].progress)]_vars

\* half way through a run of two records
C10_Witness ==
  \E a \in Accounts :
    /\ loops[a] # <<>>
    /\ Len(loops[a][1].users) = 2
    /\ Len(ResultsOf(a)) = 1
    /\ importJobs[a].progress = Percent(1, 2)
    /\ StatusOf(a) = "running"


\* C11: a step of account a (a click on its page, an upload, a step of its
\* run loop, a tick of its ticker) leaves the job, the flags, the timer
\* handle and the tickers of every other account as they were.
C11_AccountsIndependent ==
  [][\A a \in Accounts : \A b \in Accounts \ {a} :
       StepOf(a) => /\ importJobs'[b] = importJobs[b]
                    /\ jobRefs'[b] = jobRefs[b]
                    /\ tickers'[b] = tickers[b]
                    /\ loops'[b] = loops[b]]_vars

\* the loops of both accounts under way: one has published a result and
\* counts down to its second record, the other is paused before its first
\* answer
C11_Witness ==
  /\ loops["acc1"] # <<>> /\ loops["acc2"] # <<>>
  /\ Len(ResultsOf("acc1")) = 1
  /\ importJobs["acc1"].countdown = 1
  /\ StatusOf("acc2") = "paused"
  /\ ResultsOf("acc2") = <<>>


\* C12: a start from idle, completed or stopped begins a fresh run: results
\* empty, counters, progress and elapsed time 0, status running, the pause
\* and the stop flag clear, one ticker, and the request for the first record
\* under way.
FreshRun(job, refs) ==
  /\ job.status = "running"
  /\ job.results = <<>>
  /\ job.successCount = 0 /\ job.failCount = 0
  /\ job.progress = Zero
  /\ job.timeElapsed = 0
  /\ ~refs.isPaused /\ ~refs.isStopped

C12_StartIsFresh ==
  [][\A a \in Accounts :
       (loops[a] = <<>> /\ loops'[a] # <<>>)
         => /\ StatusOf(a) \in {"idle", "completed", "stopped"}
            /\ FreshRun(importJobs'[a], jobRefs'[a])
            /\ tickers'[a] = {jobRefs'[a].timerRef}
            /\ Len(loops'[a]) = 1
            /\ loops'[a][1].pc = "fetch" /\ Len(loops'[a][1].sent) = 1]_vars

\* a job stopped while paused, with a result, a partial progress and both
\* flags still set, on which Start Import begins a fresh run
C12_Witness ==
  \E a \in Accounts :
    /\ StatusOf(a) = "stopped"
    /\ jobRefs[a].isStopped /\ jobRefs[a].isPaused
    /\ Len(ResultsOf(a)) = 1
    /\ importJobs[a].progress = Percent(1, 2)
    /\ importJobs[a].timeElapsed = 1
    /\ StartEnabled(importJobs[a])
    /\ FreshRun(handleStartImport(Acct(a)).job, handleStartImport(Acct(a)).refs)


CountingDown(a) == \E k \in 1..Len(loops[a]) : loops[a][k].pc = "countdown"

C14_NoTickerLeak ==
  /\ [](\A a \in Accounts :
          /\ Cardinality(tickers[a]) <= 1
          /\ tickers[a] \subseteq {jobRefs[a].timerRef}
          /\ loops[a] = <<>> => tickers[a] = {})
  /\ \A a \in Operated : (tickers[a] # {}) ~> (tickers[a] = {})
  /\ \A a \in Operated : CountingDown(a) ~> ~CountingDown(a)

\* a ticker on the second handle: the first went with a pause or with the
\* end of an earlier run
C14_Witness ==
  \E a \in Accounts :
    /\ tickers[a] = {2}
    /\ jobRefs[a].timerRef = 2
    /\ StatusOf(a) = "running"
    /\ loops[a] # <<>>


\* C15: while the status is paused the account has no elapsed-time ticker
\* and no step changes its elapsed time, so the resume finds the value the
\* pause left; elapsed time grows only in steps from running to running.
C15_ElapsedOnlyWhileRunning ==
  /\ [](\A a \in Accounts : StatusOf(a) = "paused" => tickers[a] = {})
  /\ [][\A a \in Accounts :
          StatusOf(a) = "paused"
            => importJobs'[a].timeElapsed = importJobs[a].timeElapsed]_vars
  /\ [][\A a \in Accounts :
          importJobs'[a].timeElapsed > importJobs[a].timeElapsed
            => StatusOf(a) = "running" /\ importJobs'[a].status = "running"]_vars

\* a run paused after its first second, its loop still waiting
C15_Witness ==
  \E a \in Accounts :
    /\ StatusOf(a) = "paused"
    /\ jobRefs[a].isPaused /\ ~jobRefs[a].isStopped
    /\ loops[a] # <<>>
    /\ importJobs[a].timeElapsed = 1
    /\ tickers[a] = {}


\* C16: the step that publishes a result with status error (the backend
\* answered non-2xx, or the call threw) appends exactly that one result,
\* for the email of the record called, adds one to failCount and nothing to
\* successCount, and, unless this was the last record or a stop is pending,
\* leaves the loop running at the next record.
Last(s) == s[Len(s)]

C16_FailureDoesNotAbort ==
  [][\A a \in Accounts :
       (/\ loops[a] # <<>>
        /\ Len(importJobs'[a].results) = Len(ResultsOf(a)) + 1
        /\ Last(importJobs'[a].results).status = "error")
         => LET lp == loops[a][1]
            IN  /\ Last(importJobs'[a].results).email = lp.users[lp.i + 1].email
                /\ IsPrefix(ResultsOf(a), importJobs'[a].results)
                /\ importJobs'[a].failCount = importJobs[a].failCount + 1
                /\ importJobs'[a].successCount = importJobs[a].successCount
                /\ (lp.i + 1 < Len(lp.users) /\ ~jobRefs[a].isStopped)
                     => /\ loops'[a] # <<>>
                        /\ loops'[a][1].i = lp.i + 1
                        /\ loops'[a][1].pc \in {"fetch", "countdown", "pauseWait"}
                        /\ importJobs'[a].status = importJobs[a].status]_vars

\* a completed run whose first call failed and whose second succeeded
C16_Witness ==
  \E a \in Accounts :
    /\ StatusOf(a) = "completed"
    /\ Len(ResultsOf(a)) = 2
    /\ ResultsOf(a)[1] = [email |-> <<"a", "@", "x">>, status |-> "error"]
    /\ ResultsOf(a)[2].status = "success"
    /\ importJobs[a].failCount = 1 /\ importJobs[a].successCount = 1


\* C17: when the text yields no valid record, or sendInvites is off and a
\* record has no password, Start Import raises a destructive toast and
\* leaves the job, the flags, the tickers and the loops of the account as
\* they are; a loop is only ever started over a non-empty list of records
\* that have their passwords if sendInvites is off.
Refused(job) ==
  LET users == parseUserData(job.userEmails)
  IN  \/ Len(users) = 0
      \/ ~job.sendInvites /\ \E k \in 1..Len(users) : NoPassword(users[k])

C17_RefusedStartChangesNothing ==
  /\ [](\A a \in Accounts :
          Refused(importJobs[a])
            => /\ handleStartImport(Acct(a)) = Acct(a)
               /\ startToast(importJobs[a]) # Null
               /\ startToast(importJobs[a])[1].variant = "destructive")
  /\ [][\A a \in Accounts :
          (loops[a] = <<>> /\ loops'[a] # <<>>)
            => /\ ~Refused(importJobs[a])
               /\ startToast(importJobs[a]) = Null
               /\ loops'[a][1].users = parseUserData(importJobs[a].userEmails)]_vars

\* a completed job whose one record has no password, sendInvites switched
\* off since: the Start Import button is enabled and the start is refused
C17_Witness ==
  \E a \in Accounts :
    /\ StatusOf(a) = "completed"
    /\ Len(ResultsOf(a)) = 1
    /\ importJobs[a].userEmails = LineB
    /\ ~importJobs[a].sendInvites
    /\ StartEnabled(importJobs[a])
    /\ Refused(importJobs[a])
    /\ handleStartImport(Acct(a)) = Acct(a)


\* C18: a countdown runs only before a record i > 0 of a run started with
\* a delay d > 0; it publishes the email of record i as nextUserEmail and
\* countdown = d, then d-1, ..., 0, one less per tick and never below 0,
\* and the request for record i is issued only after the 0.  Outside a
\* countdown the two fields are 0 and null.
InCountdown(lp) == lp.pc \in {"countdown", "resolved"}

CountdownShape(job, lp) ==
  LET d == lp.settings.delayInSeconds
  IN  /\ lp.i > 0 /\ d > 0
      /\ job.nextUserEmail = Some(lp.users[lp.i + 1].email)
      /\ Len(lp.sent) = lp.i
      /\ IF lp.pc = "countdown"
         THEN job.countdown \in 1..d
         ELSE job.countdown = 0

C19_StopDuringCountdown ==
  /\ \A a \in Operated :
       (StopPending(a) /\ CountingDown(a))
         ~> (StatusOf(a) = "stopped" /\ loops[a] = <<>>)
  /\ [][\A a \in Accounts :
          (StopPending(a) /\ loops'[a] # loops[a])
            => LET lp == loops[a][1]
               IN  CASE lp.pc = "countdown"
                          -> /\ loops'[a] # <<>>
                             /\ loops'[a][1].pc \in {"countdown", "resolved"}
                             /\ loops'[a][1].sent = lp.sent
                             /\ importJobs'[a].countdown = importJobs[a].countdown - 1
                             /\ importJobs'[a].status # "stopped"
                      [] lp.pc = "resolved"
                          -> /\ loops'[a] # <<>>
                             /\ loops'[a][1].pc = "fetch"
                             /\ Len(loops'[a][1].sent) = Len(lp.sent) + 1
                             /\ Last(loops'[a][1].sent).index = lp.i
                             /\ importJobs'[a].status # "stopped"
                      [] lp.pc = "fetch"
                          -> /\ loops'[a] = <<>>
                             /\ importJobs'[a].status = "stopped"
                             /\ Len(importJobs'[a].results) = Len(ResultsOf(a)) + 1
                             /\ Last(importJobs'[a].results).email
                                  = lp.users[lp.i + 1].email
                      [] lp.pc = "pauseWait"
                          -> /\ loops'[a] = <<>>
                             /\ importJobs'[a].status = "stopped"
                             /\ importJobs'[a].results = ResultsOf(a)]_vars

\* a stop arrived during the countdown before the second record; the
\* countdown has run to 0 and the request for that record is next
C19_Witness ==
  \E a \in Accounts :
    /\ StopPending(a)
    /\ loops[a][1].pc = "resolved"
    /\ loops[a][1].i = 1
    /\ Len(loops[a][1].sent) = 1
    /\ importJobs[a].countdown = 0
    /\ StatusOf(a) = "running"


\* C20: Clear All, offered when the status is idle, stopped or completed,
\* leaves the job in the default state: idle, no results, counters,
\* progress, elapsed time and countdown 0, empty user data, sendInvites on,
\* delay 1.  A job in that state changes only by a start or by an edit of
\* its three configuration fields.
IsDefault(job) ==
  /\ job.status = "idle"
  /\ job.results = <<>>
  /\ job.successCount = 0 /\ job.failCount = 0
  /\ job.progress = Fraction(0, 1)
  /\ job.timeElapsed = 0
  /\ job.countdown = 0 /\ job.nextUserEmail = Null
  /\ job.showStats = FALSE
  /\ job.userEmails = <<>>
  /\ job.sendInvites = TRUE
  /\ job.delayInSeconds = 1

SettingsOnly(job1, job2) ==
  \A f \in DOMAIN job1 :
    f \notin {"userEmails", "sendInvites", "delayInSeconds"} => job2[f] = job1[f]

C20_ClearResets ==
  /\ [](\A a \in Accounts :
          ClearEnabled(importJobs[a])
            => /\ StatusOf(a) \in {"idle", "stopped", "completed"}
               /\ IsDefault(clearImportJob(Acct(a)).job)
               /\ clearImportJob(Acct(a)).loops = <<>>
               /\ clearImportJob(Acct(a)).tickers = {})
  /\ [][\A a \in Accounts : ClickClearAll(a) => IsDefault(importJobs'[a])]_vars
  /\ [][\A a \in Accounts :
          (IsDefault(importJobs[a]) /\ importJobs'[a] # importJobs[a])
            => \/ SettingsOnly(importJobs[a], importJobs'[a])
               \/ importJobs'[a].status = "running" /\ loops'[a] # <<>>]_vars

\* a job cleared after a stopped run: the record is the default one, the
\* flags of the run are still set
C20_Witness ==
  \E a \in Accounts :
    /\ IsDefault(importJobs[a])
    /\ jobRefs[a].present
    /\ jobRefs[a].isStopped
    /\ loops[a] = <<>>


\* C21: while a run loop of the account is active the status is running or
\* paused and Clear All is disabled; a clear happens only with no loop and
\* the status idle, stopped or completed.  So no step taken during a run
\* shortens results, lowers a counter or makes the status idle.
C21_NoClearDuringRun ==
  /\ [](\A a \in Accounts :
          loops[a] # <<>> => isJobRunning(importJobs[a]) /\ ~ClearEnabled(importJobs[a]))
  /\ [][\A a \in Accounts :
          ClickClearAll(a)
            => loops[a] = <<>> /\ StatusOf(a) \in {"idle", "stopped", "completed"}]_vars
  /\ [][\A a \in Accounts :
          loops[a] # <<>>
            => /\ IsPrefix(ResultsOf(a), importJobs'[a].results)
               /\ importJobs'[a].successCount >= importJobs[a].successCount
               /\ importJobs'[a].failCount >= importJobs[a].failCount
               /\ importJobs'[a].status # "idle"]_vars

\* a paused run with a result published and a record still to do: Clear
\* All is disabled
C21_Witness ==
  \E a \in Accounts :
    /\ loops[a] # <<>>
    /\ StatusOf(a) = "paused"
    /\ Len(ResultsOf(a)) = 1
    /\ Len(loops[a][1].users) = 2
    /\ ~ClearEnabled(importJobs[a])


\* C22: an edit of the user data, of sendInvites or of the delay replaces
\* that one field of the job and leaves every other field, the flags, the
\* tickers and the loops of the account as they are, in every state, a run
\* in progress included.
OnlyField(a, field) ==
  /\ \A f \in DOMAIN importJobs[a] \ {field} : importJobs'[a][f] = importJobs[a][f]
  /\ jobRefs'[a] = jobRefs[a]
  /\ tickers'[a] = tickers[a]
  /\ loops'[a] = loops[a]

C22_SettingsFrame ==
  /\ [](\A a \in Accounts :
          /\ \A text \in Texts :
               updateJobSettings(Acct(a), [userEmails |-> text])
                 = [Acct(a) EXCEPT !.job.userEmails = text]
          /\ \A v \in BOOLEAN :
               updateJobSettings(Acct(a), [sendInvites |-> v])
                 = [Acct(a) EXCEPT !.job.sendInvites = v]
          /\ \A d \in Delays :
               updateJobSettings(Acct(a), [delayInSeconds |-> d])
                 = [Acct(a) EXCEPT !.job.delayInSeconds = d])
  /\ [][\A a \in Accounts :
          /\ EditUserEmails(a) => OnlyField(a, "userEmails")
          /\ EditSendInvites(a) => OnlyField(a, "sendInvites")
          /\ EditDelay(a) => OnlyField(a, "delayInSeconds")]_vars

\* a run with a result published whose user data and delay were edited
\* since the start
C22_Witness ==
  \E a \in Accounts :
    /\ loops[a] # <<>>
    /\ Len(ResultsOf(a)) = 1
    /\ importJobs[a].successCount = 1
    /\ parseUserData(importJobs[a].userEmails) # loops[a][1].users
    /\ importJobs[a].delayInSeconds # loops[a][1].settings.delayInSeconds
    /\ importJobs[a].sendInvites # loops[a][1].settings.sendInvites


\* C23: when the status is idle, completed or stopped, and when a request
\* of the account is in flight, countdown is 0 and nextUserEmail is null;
\* either field differs from that only while a loop of the account is
\* inside its countdown block.
CallInFlight(a) == \E k \in 1..Len(loops[a]) : loops[a][k].pc = "fetch"

C23_TransientFields ==
  [](\A a \in Accounts :
       /\ (StatusOf(a) \in {"idle", "completed", "stopped"} \/ CallInFlight(a))
            => importJobs[a].countdown = 0 /\ importJobs[a].nextUserEmail = Null
       /\ (importJobs[a].countdown # 0 \/ importJobs[a].nextUserEmail # Null)
            => /\ \E k \in 1..Len(loops[a]) : InCountdown(loops[a][k])
               /\ isJobRunning(importJobs[a]))

\* the request for the second record is in flight, after a countdown
C23_Witness ==
  \E a \in Accounts :
    /\ loops[a] # <<>>
    /\ loops[a][1].pc = "fetch"
    /\ loops[a][1].i = 1
    /\ loops[a][1].settings.delayInSeconds > 0
    /\ importJobs[a].countdown = 0
    /\ importJobs[a].nextUserEmail = Null


\* C25: with the buttons of the page, which offer start, pause, resume, stop
\* and clear only where they are valid, the status of a job changes only
\* along these edges: idle, completed or stopped to running by a start,
\* running to paused by a pause, paused to running by a resume, running or
\* paused to completed or stopped by the exit of the loop, completed or
\* stopped to idle by a clear; a stop leaves the status as it is.
Rested == {"idle", "completed", "stopped"}

StatusEdge(a) ==
  LET s == importJobs[a].status
      t == importJobs'[a].status
  IN  \/ ClickStart(a) /\ s \in Rested /\ t = "running"
      \/ ClickPause(a) /\ s = "running" /\ t = "paused"
      \/ ClickResume(a) /\ s = "paused" /\ t = "running"
      \/ /\ FetchReturns(a) \/ PauseWaitFires(a) \/ CountdownResolved(a)
         /\ s \in {"running", "paused"}
         /\ t \in {"completed", "stopped"}
         /\ loops[a] # <<>> /\ loops'[a] = <<>>
      \/ ClickClearAll(a) /\ s \in Rested /\ t = "idle"

C25_StatusEdges ==
  /\ [][\A a \in Accounts :
          importJobs'[a].status # importJobs[a].status => StatusEdge(a)]_vars
  /\ [][\A a \in Accounts :
          ClickEndJob(a) => importJobs'[a].status = importJobs[a].status]_vars
  /\ [](\A a \in Accounts :
          stopImportJob(Acct(a)).job.status = importJobs[a].status)

\* a run that was paused, then stopped while paused, and left the loop from
\* the paused status; its first record is in the results
C25_Witness ==
  \E a \in Accounts :
    /\ StatusOf(a) = "stopped"
    /\ jobRefs[a].isPaused
    /\ jobRefs[a].isStopped
    /\ Len(ResultsOf(a)) = 1
    /\ loops[a] = <<>>


\* C27: a run uses the sendInvites and delayInSeconds that the job held when
\* start was called.  The settings of a loop are those of the job at the
\* start and stay as they are until the loop ends; every request carries
\* that sendInvites; a countdown is entered exactly when that delay is
\* positive and starts from it; an edit of the two inputs during the run
\* changes the job and leaves the loop alone.
SettingsOf(job) ==
  [delayInSeconds |-> job.delayInSeconds, sendInvites |-> job.sendInvites]

\* the loop of a goes on to its next record in this step
NextRecord(a) ==
  /\ loops[a] # <<>> /\ loops'[a] # <<>>
  /\ loops[a][1].pc \in {"fetch", "pauseWait"}
  /\ loops'[a][1].pc \in {"countdown", "fetch"}
  /\ loops'[a][1].i > 0
  /\ loops'[a][1].pc = "fetch" => Len(loops'[a][1].sent) > Len(loops[a][1].sent)

C27_SettingsAtStart ==
  /\ [][\A a \in Accounts :
          /\ ClickStart(a) /\ loops'[a] # <<>>
               => loops'[a][1].settings = SettingsOf(importJobs[a])
          /\ loops[a] # <<>> /\ loops'[a] # <<>>
               => loops'[a][1].settings = loops[a][1].settings
          /\ NextRecord(a)
               => IF loops[a][1].settings.delayInSeconds > 0
                  THEN /\ loops'[a][1].pc = "countdown"
                       /\ importJobs'[a].countdown = loops[a][1].settings.delayInSeconds
                  ELSE loops'[a][1].pc = "fetch"
          /\ (EditSendInvites(a) \/ EditDelay(a)) => loops'[a] = loops[a]]_vars
  /\ [](\A a \in Accounts : \A k \in 1..Len(loops[a]) :
          \A j \in 1..Len(loops[a][k].sent) :
            loops[a][k].sent[j].sendInvites = loops[a][k].settings.sendInvites)

\* the request for the second record is in flight after a countdown, with
\* the options of the start, while the job stores no delay and the other
\* invite choice
C27_Witness ==
  \E a \in Accounts :
    /\ loops[a] # <<>>
    /\ loops[a][1].pc = "fetch"
    /\ Len(loops[a][1].sent) = 2
    /\ loops[a][1].settings.delayInSeconds = 1
    /\ importJobs[a].delayInSeconds = 0
    /\ importJobs[a].sendInvites # loops[a][1].settings.sendInvites
    /\ loops[a][1].sent[2].sendInvites = loops[a][1].settings.sendInvites


\* C26: a started run ends, as completed or as stopped, when the answers
\* arrive, the countdown ticks fire, every pause is followed by a resume or
\* a stop, and the pause poll, which a resume makes possible again and
\* again, does get to see the run resumed; it ends as completed unless a
\* stop is requested, and stopped is the status of a stop request only.
RunActive(a) == loops[a] # <<>>
Ended(a) == StatusOf(a) \in {"completed", "stopped"} /\ loops[a] = <<>>

C26_TerminatesWhenPolled ==
  /\ (\A a \in Operated : SF_vars(LoopStep(a)))
       => /\ \A a \in Operated : RunActive(a) ~> Ended(a)
          /\ \A a \in Operated :
               RunActive(a) ~> (StatusOf(a) = "completed" \/ jobRefs[a].isStopped)
  /\ [](\A a \in Accounts : StatusOf(a) = "stopped" => jobRefs[a].isStopped)

\* a run over two records that was paused and resumed and ended as
\* completed: its ticker handle is the second one
C26_Witness ==
  \E a \in Accounts :
    /\ StatusOf(a) = "completed"
    /\ loops[a] = <<>>
    /\ Len(ResultsOf(a)) = 2
    /\ jobRefs[a].timerRef = 2
    /\ ~jobRefs[a].isPaused
    /\ ~jobRefs[a].isStopped

\* C26 as stated: with answers, ticks and a resume or stop after every
\* pause, a started run ends.  A run that is paused again after each resume,
\* before the poll fires, stays in its pause wait.
C26_Terminates ==
  \A a \in Operated : RunActive(a) ~> Ended(a)


\* C24: no response of the account endpoints carries a secret key.  The
\* list of GET /api/accounts has, for every account of the file and in file
\* order, its id, name, apiKey and isActive and no other field; the 201
\* answer of POST /api/accounts has these four fields of the account it
\* stored; every other answer is a fixed message.
SafeFields == {"id", "name", "apiKey", "isActive"}

Messages ==
  {"All fields are required", "Error saving new account", "Account not found",
   "Account deleted successfully", "Error deleting account",
   "Active account updated", "Error updating active account"}

SafeCopy(body, acc) ==
  /\ DOMAIN body = SafeFields
  /\ \A f \in SafeFields : body[f] = acc[f]

C24_NoSecretInResponse ==
  /\ [](CASE response.kind = "list"
               -> \A i \in 1..Len(response.body) :
                    DOMAIN response.body[i] = SafeFields
          [] response.kind = "account" -> DOMAIN response.body = SafeFields
          [] response.kind = "message" -> response.body \in Messages
          [] OTHER -> response.kind = "none")
  /\ [][/\ GetAccounts
            => /\ response'.kind = "list"
               /\ Len(response'.body) = Len(db)
               /\ \A i \in 1..Len(db) : SafeCopy(response'.body[i], db[i])
        /\ (response' # response /\ response'.kind = "account")
            => /\ Len(db') = Len(db) + 1
               /\ SafeCopy(response'.body, db'[Len(db')])]_vars

\* the list of a store of two accounts, both with a secret key, after a
\* third was deleted
C24_Witness ==
  /\ response.kind = "list"
  /\ Len(response.body) = 2
  /\ Len(db) = 2
  /\ issued = 3
  /\ \A i \in 1..Len(db) : db[i].secretKey \in {"sk_one", "sk_two"}
  /\ db[1].secretKey # db[2].secretKey

\* C28: with the requests handled one at a time, at most one account of the
\* file is active.  An account added to an empty file is active, one added
\* to a file with accounts is inactive and leaves the others as they are; a
\* delete of the active account makes the first of the remaining accounts
\* the active one, a delete of another account changes no flag; set-active
\* with the id of a stored account leaves that account the only active one.
ActiveIds(accounts) ==
  {accounts[i].id : i \in {j \in 1..Len(accounts) : accounts[j].isActive}}

ActiveCount(accounts) ==
  Cardinality({j \in 1..Len(accounts) : accounts[j].isActive})

\* the accounts are those of before, flags aside
SameButFlags(before, after) ==
  /\ Len(after) = Len(before)
  /\ \A i \in 1..Len(before) :
       [after[i] EXCEPT !.isActive = before[i].isActive] = before[i]

C28_OneActive ==
  /\ [](/\ ActiveCount(db) <= 1
        /\ \A i, j \in 1..Len(db) : db[i].id = db[j].id => i = j)
  /\ [][/\ Len(db') = Len(db) + 1
            => /\ SubSeq(db', 1, Len(db)) = db
               /\ db'[Len(db')].isActive = (Len(db) = 0)
        /\ \A id \in RequestIds :
             (DeleteAccount(id) /\ response'.status = 200)
               => /\ HasId(db, id) /\ ~HasId(db', id)
                  /\ SameButFlags(without(db, id), db')
                  /\ IF id \in ActiveIds(db)
                     THEN ActiveIds(db') = IF db' = <<>> THEN {} ELSE {db'[1].id}
                     ELSE ActiveIds(db') = ActiveIds(db)
        /\ \A id \in RequestIds :
             (SetActive(id) /\ response'.status = 200 /\ HasId(db, id))
               => /\ SameButFlags(db, db')
                  /\ ActiveIds(db') = {id}
                  /\ ActiveCount(db') = 1]_vars

\* the first account added, the active one, has just been deleted from a
\* file of three: the second is now the first of the file and the active one
C28_Witness ==
  /\ Len(db) = 2
  /\ db[1].id = 2
  /\ db[2].id = 3
  /\ db[1].isActive
  /\ ~db[2].isActive
  /\ response.kind = "message"
  /\ response.body = "Account deleted successfully"

=============================================================================
